---- MODULE Spec2Model ----
(***************************************************************************)
(* Model of the channel reconciler of alertmanager-irc-relay               *)
(* (src/reconciler.go): the per-channel join state (channelState), its     *)
(* monitor goroutine, and the registry (ChannelReconciler) with its        *)
(* Start/Stop lifecycle, JoinChannel and the JOIN/KICK handlers.           *)
(*                                                                         *)
(* Go objects are modelled as follows.                                     *)
(*  - A channelState is a slot l of Loops; loop[l] holds its fields and    *)
(*    the position (pc) of its Monitor goroutine.  A slot is reused only   *)
(*    once nothing refers to the object (registry cleared, task exited).   *)
(*  - A `chan struct{}` made for joinDone is a number, its address;        *)
(*    `closed` is the set of those that were closed.  A number stands for  *)
(*    a channel as long as something refers to it (a channelState, a       *)
(*    monitor's select, a caller of JoinChannel).  make returns a number   *)
(*    nothing refers to, and after every step the live channels are        *)
(*    renumbered in the order of what refers to them (a compacting         *)
(*    collector), so that a state does not depend on the numbers that      *)
(*    earlier channels happened to get.                                    *)
(*  - joinUnsetSignal is unbuffered: a non-blocking send succeeds exactly  *)
(*    when the monitor is blocked in the select of monitorJoinUnset        *)
(*    (pc = "Parked").                                                     *)
(*  - r.stopCtx is its error state: "nil" (the interface was never set),   *)
(*    "ok" (Err() == nil), "Canceled" or "DeadlineExceeded".  Start        *)
(*    replaces r.stopCtx only after stopWg.Wait(), so the context a        *)
(*    running monitor was given is the current r.stopCtx.                  *)
(*  - r.mu is `mu`: "free", or the lifecycle call that holds it while it   *)
(*    waits in stopWg.Wait().  The other registry methods run to their     *)
(*    end once they hold r.mu, so each is one step.                        *)
(***************************************************************************)
EXTENDS Integers, Sequences, FiniteSets, TLC

\* ---------------------------------------------------------------- bounds
\* number of channelState objects that can be live at once
NumLoops == 2

Loops == 1..NumLoops
\* the goroutines that can call JoinChannel ("absent" in a run: not there)
CallerSeq == <<"c1", "c2">>
Callers == {CallerSeq[i] : i \in DOMAIN CallerSeq}
\* what can refer to a channel: joinDone and a select per slot, the callers
NumRefs == 2 * NumLoops + Len(CallerSeq)
\* enough addresses for the live channels and the new ones of one step
Sigs == 1..(2 * NumRefs)
Names == {"a", "b"}
Me == "me"
Nicks == {"me", "other"}
NoLoop == 0
NoSig == 0

IRCChannel(n, p) == [Name |-> n, Password |-> p]

\* the desired-channel lists a Config may hold (a list: names may repeat)
PreJoinLists ==
    { <<IRCChannel("a", "pw")>>,
      <<IRCChannel("a", "pw"), IRCChannel("b", "pw")>>,
      <<IRCChannel("a", "pw"), IRCChannel("a", "pw")>> }

\* The names JoinChannel is asked for: any name, but with the list that
\* names "a" twice only "a" (so that with every list at most two monitors
\* run under one context).
CallNames(list) ==
    IF Len(list) = 2 /\ list[1].Name = list[2].Name THEN {list[1].Name} ELSE Names

VARIABLES
    preJoinChannels,  \* r.preJoinChannels
    channels,         \* r.channels: name -> slot of its channelState, or NoLoop
    loop,             \* the channelState objects and their Monitor goroutines
    closed,           \* the joinDone channels that have been closed
    unsetSigs,        \* the joinDone channels UnsetJoined has replaced
    stopCtx,          \* r.stopCtx
    stopCtxCancel,    \* r.stopCtxCancel != nil
    stopWg,           \* r.stopWg's counter
    mu,               \* r.mu
    call,             \* the JoinChannel callers and what they were returned
    panicked          \* a goroutine panicked: the process is gone

vars == <<preJoinChannels, channels, loop, closed, unsetSigs, stopCtx,
          stopCtxCancel, stopWg, mu, call, panicked>>

\* ------------------------------------------------------------ channelState
\* A slot that holds no channelState.
FreeLoop ==
    [name |-> "", password |-> "", joined |-> FALSE, joinDone |-> NoSig,
     pc |-> "None", done |-> NoSig]

\* The objects the registry's methods read and write, as one value, so that
\* a method is a function from heap to heap.
Heap ==
    [channels |-> channels, loop |-> loop, closed |-> closed,
     unsetSigs |-> unsetSigs, stopWg |-> stopWg, panicked |-> panicked,
     call |-> call]

\* what refers to channels, in a fixed order: the joinDone of every slot,
\* the select of every monitor, the callers
Refs(h) ==
    [i \in 1..NumRefs |->
        IF i <= NumLoops THEN h.loop[i].joinDone
        ELSE IF i <= 2 * NumLoops THEN h.loop[i - NumLoops].done
        ELSE h.call[CallerSeq[i - 2 * NumLoops]].done]

\* the channels something refers to
Live(h) == {Refs(h)[i] : i \in 1..NumRefs} \ {NoSig}

\* make(chan struct{})
MakeChan(h) ==
    LET free == Sigs \ Live(h)
    IN CHOOSE s \in free : \A t \in free : s <= t

\* the number of channel s after the renumbering, r being what refers to
\* channels: the place of the first that refers to s
Renumber(r, s) ==
    IF s = NoSig
    THEN NoSig
    ELSE CHOOSE i \in 1..NumRefs : r[i] = s /\ \A j \in 1..(i - 1) : r[j] # s

\* the heap with its live channels renumbered and the others forgotten
Compact(h) ==
    LET r == Refs(h)
        live == {r[i] : i \in 1..NumRefs} \ {NoSig}
    IN [h EXCEPT
          !.loop = [l \in Loops |->
                      [h.loop[l] EXCEPT !.joinDone = Renumber(r, @),
                                        !.done = Renumber(r, @)]],
          !.call = [k \in Callers |-> [h.call[k] EXCEPT !.done = Renumber(r, @)]],
          !.closed = {Renumber(r, s) : s \in h.closed \cap live},
          !.unsetSigs = {Renumber(r, s) : s \in h.unsetSigs \cap live}]

\* newChannelState: a channelState for `channel` in slot l, not joined, with
\* a new joinDone channel.  Its goroutine is not started yet.
newChannelState(h, l, channel) ==
    [h EXCEPT !.loop[l] = [name |-> channel.Name, password |-> channel.Password,
                           joined |-> FALSE, joinDone |-> MakeChan(h),
                           pc |-> "None", done |-> NoSig],
              !.closed = @ \ {MakeChan(h)},
              !.unsetSigs = @ \ {MakeChan(h)}]

\* c.JoinDone()
JoinDone(h, l) == h.loop[l].joinDone

\* close(ch): closing a closed channel panics.
CloseChan(h, s) ==
    IF s \in h.closed
    THEN [h EXCEPT !.panicked = TRUE]
    ELSE [h EXCEPT !.closed = @ \cup {s}]

\* SetJoined that sets the flag and forgets close(c.joinDone)
SetJoinedNoClose(h, l) ==
    IF h.loop[l].joined THEN h ELSE [h EXCEPT !.loop[l].joined = TRUE]

\* c.SetJoined()
SetJoined(h, l) ==
    IF h.loop[l].joined
    THEN h
    ELSE CloseChan([h EXCEPT !.loop[l].joined = TRUE], h.loop[l].joinDone)

\* The select of UnsetJoined: the send on the unbuffered joinUnsetSignal goes
\* through only when the monitor is blocked receiving from it; it then
\* returns from monitorJoinUnset to the head of Monitor's loop.
PokeMonitor(h, l) ==
    IF h.loop[l].pc = "Parked"
    THEN [h EXCEPT !.loop[l].pc = "Loop"]
    ELSE h

\* UnsetJoined that keeps the old joinDone instead of making a new one
KeepJoinDone(h, l) ==
    [h EXCEPT !.unsetSigs = @ \cup {h.loop[l].joinDone}]

\* UnsetJoined that makes no new channel and has the old one open again
ReopenJoinDone(h, l) ==
    [h EXCEPT !.closed = @ \ {h.loop[l].joinDone}]

\* c.joinDone = make(chan struct{}) in UnsetJoined
ResetJoinDone(h, l) ==
    [h EXCEPT !.loop[l].joinDone = MakeChan(h),
              !.closed = @ \ {MakeChan(h)},
              !.unsetSigs = (@ \ {MakeChan(h)}) \cup {h.loop[l].joinDone}]

\* UnsetJoined that clears the flag and leaves c.joinDone as it is
UnsetJoinedKeepsSignal(h, l) ==
    IF ~h.loop[l].joined
    THEN h
    ELSE PokeMonitor([h EXCEPT !.loop[l].joined = FALSE], l)

\* UnsetJoined without its `if c.joined == false` early return
UnsetJoinedAlways(h, l) ==
    PokeMonitor(ResetJoinDone([h EXCEPT !.loop[l].joined = FALSE], l), l)

\* c.UnsetJoined()
UnsetJoined(h, l) ==
    IF ~h.loop[l].joined
    THEN h
    ELSE PokeMonitor(ResetJoinDone([h EXCEPT !.loop[l].joined = FALSE], l), l)

\* ------------------------------------------------------- ChannelReconciler
FreeSlots(h) == {l \in Loops : h.loop[l] = FreeLoop}

\* the slot a new channelState gets
NewSlot(h) == CHOOSE l \in FreeSlots(h) : \A k \in FreeSlots(h) : l <= k

\* r.HandleJoin(nick, channel)
HandleJoin(h, nick, channel) ==
    IF nick # Me
    THEN h
    ELSE IF h.channels[channel] = NoLoop
         THEN h
         ELSE SetJoined(h, h.channels[channel])

\* HandleKick without the check that the kicked nick is the local one
HandleKickAnyNick(h, nick, channel) ==
    IF h.channels[channel] = NoLoop
    THEN h
    ELSE UnsetJoined(h, h.channels[channel])

\* r.HandleKick(nick, channel)
HandleKick(h, nick, channel) ==
    IF nick # Me
    THEN h
    ELSE IF h.channels[channel] = NoLoop
         THEN h
         ELSE UnsetJoined(h, h.channels[channel])

\* r.stopWg.Add(1); go c.Monitor(r.stopCtx, &r.stopWg): the goroutine of
\* slot l starts at the head of Monitor's loop
GoMonitor(h, l) == [h EXCEPT !.stopWg = @ + 1, !.loop[l].pc = "Loop"]

\* r.unsafeAddChannel(channel): make the state, start its Monitor goroutine
\* and register it.
unsafeAddChannel(h, channel) ==
    LET l == NewSlot(h)
    IN [GoMonitor(newChannelState(h, l, channel), l)
          EXCEPT !.channels[channel.Name] = l]

\* JoinChannel that does not look the name up in r.channels and makes a
\* channelState whenever it has room for one
JoinChannelAlwaysAdds(h, channel) ==
    LET h1 == IF h.channels[channel] = NoLoop \/ FreeSlots(h) # {}
              THEN unsafeAddChannel(h, IRCChannel(channel, ""))
              ELSE h
        l == h1.channels[channel]
    IN IF JoinDone(h1, l) \in h1.closed
       THEN [heap |-> h1, ret |-> <<TRUE, NoSig>>]
       ELSE [heap |-> h1, ret |-> <<FALSE, JoinDone(h1, l)>>]

\* r.JoinChannel(channel): the heap after it and what it returns
JoinChannel(h, channel) ==
    LET h1 == IF h.channels[channel] = NoLoop
              THEN unsafeAddChannel(h, IRCChannel(channel, ""))
              ELSE h
        l == h1.channels[channel]
    IN IF JoinDone(h1, l) \in h1.closed
       THEN [heap |-> h1, ret |-> <<TRUE, NoSig>>]
       ELSE [heap |-> h1, ret |-> <<FALSE, JoinDone(h1, l)>>]

\* unsafeStop that frees the states of the goroutines that are gone but
\* keeps the map it has
ClearChannelsKeepMap(h) ==
    [h EXCEPT !.loop = [l \in Loops |->
                          IF h.loop[l].pc \in {"None", "Exited"}
                          THEN FreeLoop ELSE h.loop[l]]]

\* r.channels = make(map[string]*channelState): the states it held are
\* unreachable once their goroutines are gone.
ClearChannels(h) ==
    [h EXCEPT !.channels = [n \in Names |-> NoLoop],
              !.loop = [l \in Loops |->
                          IF h.loop[l].pc \in {"None", "Exited"}
                          THEN FreeLoop ELSE h.loop[l]]]

\* the loop of Start over r.preJoinChannels, from its i-th entry on
RECURSIVE AddPreJoin(_, _, _)
AddPreJoin(h, list, i) ==
    IF i > Len(list)
    THEN h
    ELSE AddPreJoin(unsafeAddChannel(h, list[i]), list, i + 1)

\* ctx.Done() is closed
CtxDone(c) == c \in {"Canceled", "DeadlineExceeded"}

\* r.stopCtxCancel(): the first end of a context is the one that counts
Cancel(c) == IF c = "ok" THEN "Canceled" ELSE c

\* unsafeStop without its `if r.stopCtxCancel == nil` early return
unsafeStopNoNilCheck(cancel, c) == [ctx |-> Cancel(c), waits |-> TRUE]

\* r.unsafeStop() up to its stopWg.Wait(): the context it leaves and whether
\* it gets to the Wait; `cancel` says that r.stopCtxCancel is set
unsafeStop(cancel, c) ==
    IF ~cancel
    THEN [ctx |-> c, waits |-> FALSE]
    ELSE [ctx |-> Cancel(c), waits |-> TRUE]

\* unsafeStop without its stopWg.Wait()
WgWaitSkipped == TRUE

\* r.stopWg.Wait() returns
WgWaitReturns == stopWg = 0

\* write a heap back to the variables, compacted (the heap and its
\* compaction are bound by quantifiers so that each is computed once)
Install(h) ==
    \E g \in {h} : \E c \in {Compact(g)} :
       /\ channels' = c.channels
       /\ loop' = c.loop
       /\ closed' = c.closed
       /\ unsetSigs' = c.unsetSigs
       /\ stopWg' = c.stopWg
       /\ panicked' = c.panicked
       /\ call' = c.call

CallRecords ==
    [st : {"absent", "idle", "called", "returned"}, name : Names \cup {""},
     joined : BOOLEAN, done : Sigs \cup {NoSig}]

TypeOK ==
    /\ preJoinChannels \in PreJoinLists
    /\ channels \in [Names -> Loops \cup {NoLoop}]
    /\ closed \subseteq Sigs
    /\ unsetSigs \subseteq Sigs
    /\ stopCtx \in {"nil", "ok", "Canceled", "DeadlineExceeded"}
    /\ stopCtxCancel \in BOOLEAN
    /\ stopWg \in 0..NumLoops
    /\ mu \in {"free", "Stop", "Start"}
    /\ call \in [Callers -> CallRecords]
    /\ panicked \in BOOLEAN

Init ==
    /\ preJoinChannels \in PreJoinLists
    /\ channels = [n \in Names |-> NoLoop]
    /\ loop = [l \in Loops |-> FreeLoop]
    /\ closed = {}
    /\ unsetSigs = {}
    /\ stopCtx = "nil"
    /\ stopCtxCancel = FALSE
    /\ stopWg = 0
    /\ mu = "free"
    /\ call = [k \in Callers |->
                 [st |-> IF k = CallerSeq[1] THEN "idle" ELSE "absent",
                  name |-> "", joined |-> FALSE, done |-> NoSig]]
    /\ panicked = FALSE

\* The state after construction with every caller there, for the races of
\* JoinChannel calls, and one pre-join list.
RaceInit ==
    /\ preJoinChannels = <<IRCChannel("a", "pw")>>
    /\ channels = [n \in Names |-> NoLoop]
    /\ loop = [l \in Loops |-> FreeLoop]
    /\ closed = {}
    /\ unsetSigs = {}
    /\ stopCtx = "nil"
    /\ stopCtxCancel = FALSE
    /\ stopWg = 0
    /\ mu = "free"
    /\ call = [k \in Callers |->
                 [st |-> "idle", name |-> "", joined |-> FALSE, done |-> NoSig]]
    /\ panicked = FALSE

\* ----------------------------------------------------------- the handlers
\* The irc.JOIN handler of registerHandlers.  (An event that HandleJoin
\* ignores leaves every variable as it is: such a step is a stuttering
\* step, which every behaviour may take anyway.)
OnJoin(nick, channel) ==
    /\ ~panicked /\ mu = "free"
    /\ HandleJoin(Heap, nick, channel) # Heap
    /\ Install(HandleJoin(Heap, nick, channel))
    /\ UNCHANGED <<preJoinChannels, stopCtx, stopCtxCancel, mu>>

\* the irc.KICK handler of registerHandlers (likewise)
OnKick(nick, channel) ==
    /\ ~panicked /\ mu = "free"
    /\ HandleKick(Heap, nick, channel) # Heap
    /\ Install(HandleKick(Heap, nick, channel))
    /\ UNCHANGED <<preJoinChannels, stopCtx, stopCtxCancel, mu>>

\* a caller invokes JoinChannel(name), letting go of what an earlier call
\* returned, and waits for r.mu
JoinChannelCall(k, name) ==
    /\ ~panicked
    /\ call[k].st \in {"idle", "returned"}
    /\ name \in CallNames(preJoinChannels)
    /\ Install([Heap EXCEPT !.call[k] = [st |-> "called", name |-> name,
                                         joined |-> FALSE, done |-> NoSig]])
    /\ UNCHANGED <<preJoinChannels, stopCtx, stopCtxCancel, mu>>

\* it gets r.mu, runs JoinChannel and returns
JoinChannelRun(k) ==
    /\ ~panicked /\ mu = "free"
    /\ call[k].st = "called"
    /\ channels[call[k].name] = NoLoop => FreeSlots(Heap) # {}
    /\ \E r \in {JoinChannel(Heap, call[k].name)} :
          Install([r.heap EXCEPT !.call[k].st = "returned",
                                 !.call[k].joined = r.ret[1],
                                 !.call[k].done = r.ret[2]])
    /\ UNCHANGED <<preJoinChannels, stopCtx, stopCtxCancel, mu>>

\* Stop() takes r.mu; unsafeStop returns at once before the first Start,
\* and otherwise cancels the context and starts to wait in stopWg.Wait()
StopCall ==
    /\ ~panicked /\ mu = "free"
    /\ stopCtx' = unsafeStop(stopCtxCancel, stopCtx).ctx
    /\ mu' = IF unsafeStop(stopCtxCancel, stopCtx).waits THEN "Stop" ELSE "free"
    /\ UNCHANGED <<preJoinChannels, channels, loop, closed, unsetSigs,
                   stopCtxCancel, stopWg, call, panicked>>

\* stopWg.Wait() returns in Stop: the registry is cleared, r.mu released
StopReturn ==
    /\ ~panicked /\ mu = "Stop"
    /\ WgWaitReturns
    /\ Install(ClearChannels(Heap))
    /\ mu' = "free"
    /\ UNCHANGED <<preJoinChannels, stopCtx, stopCtxCancel>>

\* the rest of Start once unsafeStop is over: a new context derived from
\* the parent, and one channelState per entry of the list
StartRest ==
    /\ Cardinality(FreeSlots(ClearChannels(Heap))) >= Len(preJoinChannels)
    /\ Install(AddPreJoin(ClearChannels(Heap), preJoinChannels, 1))
    /\ stopCtx' = "ok"
    /\ stopCtxCancel' = TRUE
    /\ mu' = "free"
    /\ UNCHANGED preJoinChannels

\* Start(ctx) takes r.mu and runs unsafeStop: before the first Start that
\* returns at once and Start runs to its end, otherwise it cancels the
\* context and waits in stopWg.Wait().  (A monitor that JoinChannel started
\* before the first Start has no context and panics as soon as it runs:
\* the model does not follow a process in that state through a Start.)
StartCall ==
    /\ ~panicked /\ mu = "free"
    /\ stopCtxCancel \/ \A l \in Loops : loop[l] = FreeLoop
    /\ IF ~unsafeStop(stopCtxCancel, stopCtx).waits
       THEN StartRest
       ELSE /\ stopCtx' = unsafeStop(stopCtxCancel, stopCtx).ctx
            /\ mu' = "Start"
            /\ UNCHANGED <<preJoinChannels, channels, loop, closed, unsetSigs,
                           stopCtxCancel, stopWg, call, panicked>>

\* stopWg.Wait() returns in Start
StartReturn ==
    /\ ~panicked /\ mu = "Start"
    /\ WgWaitReturns
    /\ StartRest

\* The context given to Start is any context: it may be cancelled, or its
\* deadline may expire, at any time, and it may never end.  The context
\* derived from it ends with it, with the same error.
ParentCancel ==
    /\ ~panicked
    /\ stopCtx = "ok"
    /\ stopCtx' = "Canceled"
    /\ UNCHANGED <<preJoinChannels, channels, loop, closed, unsetSigs,
                   stopCtxCancel, stopWg, mu, call, panicked>>

ParentDeadline ==
    /\ ~panicked
    /\ stopCtx = "ok"
    /\ stopCtx' = "DeadlineExceeded"
    /\ UNCHANGED <<preJoinChannels, channels, loop, closed, unsetSigs,
                   stopCtxCancel, stopWg, mu, call, panicked>>

\* ------------------------------------------------- the Monitor goroutines
\* A goroutine's position: "Loop" at the head of Monitor's loop, "Delay" in
\* delayer.DelayContext, "JoinWait" in the select of join after the join
\* request was sent, "Park" in monitorJoinUnset before its select, "Parked"
\* blocked in that select, "Exited" after Monitor returned.  Steps that
\* touch nothing shared (the call of client.Join) are taken together with
\* the step before them.

\* the loop condition of Monitor: ctx.Err() != context.Canceled
LoopCond(c) == c # "Canceled"

\* wg.Done(): a counter that would go below zero panics
WgDone(h) ==
    IF h.stopWg = 0
    THEN [h EXCEPT !.panicked = TRUE]
    ELSE [h EXCEPT !.stopWg = @ - 1]

\* Monitor that calls join without looking at joined()
BranchAlwaysJoin(h, l) == "Delay"

\* the branch of `if !joined()`
Branch(h, l) == IF ~h.loop[l].joined THEN "Delay" ELSE "Park"

\* What delayer.DelayContext(ctx) may return: true when the delay is over,
\* false when the context ended first; either when both have happened.
DelayContext(c) == IF CtxDone(c) THEN {TRUE, FALSE} ELSE {TRUE}

\* the select of join without its time.After case
JoinWaitNoTimer(h, l, c) ==
    \/ h.loop[l].done \in h.closed
    \/ CtxDone(c)

\* The select of join is over: joinDone was closed, the ircJoinWaitSecs
\* timer fired (it always does in the end), or the context ended.
JoinWaitOver(h, l, c) ==
    \/ h.loop[l].done \in h.closed
    \/ TRUE
    \/ CtxDone(c)

\* Head of Monitor's loop.  Calling Err() on a context that was never set
\* is a nil dereference; when the condition fails Monitor returns and its
\* deferred wg.Done() runs; otherwise joined() picks the branch.
MonitorLoop(l) ==
    /\ ~panicked
    /\ loop[l].pc = "Loop"
    /\ IF stopCtx = "nil"
       THEN Install([Heap EXCEPT !.panicked = TRUE])
       ELSE IF LoopCond(stopCtx)
            THEN Install([Heap EXCEPT !.loop[l].pc = Branch(Heap, l)])
            ELSE Install(WgDone([Heap EXCEPT !.loop[l].pc = "Exited"]))
    /\ UNCHANGED <<preJoinChannels, stopCtx, stopCtxCancel, mu>>

\* join: the backoff delay is over.  When it was cancelled join returns;
\* otherwise the join request is sent (client.Join) and the select starts
\* to wait on the channel c.JoinDone() returns now.
JoinSend(l) ==
    /\ ~panicked
    /\ loop[l].pc = "Delay"
    /\ \E ok \in DelayContext(stopCtx) :
          IF ok
          THEN Install([Heap EXCEPT !.loop[l].done = JoinDone(Heap, l),
                                    !.loop[l].pc = "JoinWait"])
          ELSE Install([Heap EXCEPT !.loop[l].pc = "Loop"])
    /\ UNCHANGED <<preJoinChannels, stopCtx, stopCtxCancel, mu>>

\* join: the select is over and join returns to Monitor's loop
JoinWake(l) ==
    /\ ~panicked
    /\ loop[l].pc = "JoinWait"
    /\ JoinWaitOver(Heap, l, stopCtx)
    /\ Install([Heap EXCEPT !.loop[l].done = NoSig, !.loop[l].pc = "Loop"])
    /\ UNCHANGED <<preJoinChannels, stopCtx, stopCtxCancel, mu>>

\* monitorJoinUnset: enter the select; it blocks unless the context ended
MonitorPark(l) ==
    /\ ~panicked
    /\ loop[l].pc = "Park"
    /\ Install([Heap EXCEPT !.loop[l].pc =
                   IF CtxDone(stopCtx) THEN "Loop" ELSE "Parked"])
    /\ UNCHANGED <<preJoinChannels, stopCtx, stopCtxCancel, mu>>

\* monitorJoinUnset: the blocked select is woken by ctx.Done() (the wake by
\* joinUnsetSignal is part of UnsetJoined)
MonitorUnpark(l) ==
    /\ ~panicked
    /\ loop[l].pc = "Parked"
    /\ CtxDone(stopCtx)
    /\ Install([Heap EXCEPT !.loop[l].pc = "Loop"])
    /\ UNCHANGED <<preJoinChannels, stopCtx, stopCtxCancel, mu>>

\* one step of the Monitor goroutine of slot l
Monitor(l) ==
    \/ MonitorLoop(l)
    \/ JoinSend(l)
    \/ JoinWake(l)
    \/ MonitorPark(l)
    \/ MonitorUnpark(l)

\* -------------------------------------------------------- specifications
Next ==
    \/ \E nick \in Nicks, channel \in Names : OnJoin(nick, channel)
    \/ \E nick \in Nicks, channel \in Names : OnKick(nick, channel)
    \/ \E k \in Callers, name \in Names : JoinChannelCall(k, name)
    \/ \E k \in Callers : JoinChannelRun(k)
    \/ StopCall
    \/ StopReturn
    \/ StartCall
    \/ StartReturn
    \/ ParentCancel
    \/ ParentDeadline
    \/ \E l \in Loops : Monitor(l)

Spec == Init /\ [][Next]_vars

\* the program when the context given to Start never ends: what the calls
\* of Start, Stop, JoinChannel, HandleJoin and HandleKick do by themselves
OpsNext ==
    \/ \E nick \in Nicks, channel \in Names : OnJoin(nick, channel)
    \/ \E nick \in Nicks, channel \in Names : OnKick(nick, channel)
    \/ \E k \in Callers, name \in Names : JoinChannelCall(k, name)
    \/ \E k \in Callers : JoinChannelRun(k)
    \/ StopCall
    \/ StopReturn
    \/ StartCall
    \/ StartReturn
    \/ \E l \in Loops : Monitor(l)

OpsSpec == Init /\ [][OpsNext]_vars

\* the same program with two goroutines that call JoinChannel
RaceSpec == RaceInit /\ [][Next]_vars

\* The Go scheduler runs every goroutine that can run: the monitors, the
\* Stop or Start whose stopWg.Wait() can return.  A sync.Mutex hands the
\* lock to a starving waiter, so a JoinChannel that can take r.mu again
\* and again gets it.  The callers and the IRC events are not obliged to
\* do anything.
FairSpec ==
    /\ Spec
    /\ \A l \in Loops : WF_vars(Monitor(l))
    /\ WF_vars(StopReturn)
    /\ WF_vars(StartReturn)
    /\ \A k \in Callers : SF_vars(JoinChannelRun(k))

\* ------------------------------------------------------------ the claims
Running(l) == loop[l].pc \notin {"None", "Exited"}
Tracked(l) == \E n \in Names : channels[n] = l

\* C2: when Stop returns on a started reconciler, every monitor has exited
\* (none is at any position of Monitor any more) and the registry is empty.
StopReturnsClean ==
    [][(mu = "Stop" /\ mu' = "free")
         => /\ \A l \in Loops : ~Running(l)
            /\ \A l \in Loops : loop'[l] = FreeLoop
            /\ \A n \in Names : channels'[n] = NoLoop]_vars

\* Stop has returned on a started reconciler: started, nobody holds r.mu, the
\* context is cancelled and nothing is registered.
StopReturned ==
    /\ stopCtxCancel /\ mu = "free" /\ stopCtx = "Canceled"
    /\ \A n \in Names : channels[n] = NoLoop
    /\ \A l \in Loops : loop[l] = FreeLoop

\* C4: JoinChannel while no scope is active (none was ever set, or the last
\* one was stopped) never makes the process panic.
JoinChannelWithoutScopeIsSafe == ~panicked

\* C5: JoinChannel(name) leaves a registered state for name and reports
\* it as it is when the call runs: (true, nil) exactly when the state is
\* joined, that is when its current joinDone is closed; otherwise (false, s)
\* with s the current joinDone, open; a state it created is not joined and
\* has the empty password.  And the next SetJoined of that channel closes s.
JoinChannelReportsState ==
    [][\A k \in Callers :
         /\ (call[k].st = "called" /\ call'[k].st = "returned")
              => LET n == call[k].name
                     l == channels'[n]
                 IN /\ l # NoLoop
                    /\ loop'[l].name = n
                    /\ call'[k].joined <=> loop'[l].joined
                    /\ call'[k].joined <=> loop'[l].joinDone \in closed'
                    /\ call'[k].joined => call'[k].done = NoSig
                    /\ ~call'[k].joined => /\ call'[k].done = loop'[l].joinDone
                                           /\ call'[k].done \notin closed'
                    /\ channels[n] = NoLoop
                         => ~loop'[l].joined /\ loop'[l].password = ""
         /\ (/\ call[k].st = "returned" /\ call'[k].st = "returned"
             /\ ~call[k].joined
             /\ channels[call[k].name] # NoLoop
             /\ channels'[call[k].name] = channels[call[k].name]
             /\ loop[channels[call[k].name]].joinDone = call[k].done
             /\ ~loop[channels[call[k].name]].joined
             /\ loop'[channels[call[k].name]].joined)
              => call'[k].done \in closed']_vars

\* a caller was returned (false, s), and s has been closed since
ReturnedSignalSatisfied ==
    \E k \in Callers :
        /\ call[k].st = "returned" /\ ~call[k].joined
        /\ call[k].done \in closed
        /\ channels[call[k].name] # NoLoop
        /\ loop[channels[call[k].name]].joinDone = call[k].done

\* C7, as stated: a caller that holds a joinDone from before an UnsetJoined
\* replaced it never sees it closed after that UnsetJoined.
StaleSignalNeverSatisfied ==
    \A k \in Callers : call[k].done \in unsetSigs => call[k].done \notin closed

\* C7, amended: a joinDone that a caller holds from before an UnsetJoined
\* replaced it is closed (by the SetJoined before that UnsetJoined) and is
\* the joinDone of no channelState any more, so that the SetJoined after the
\* UnsetJoined closes the new channel and not the one the caller holds.
StaleSignalDetached ==
    \A k \in Callers :
        call[k].done \in unsetSigs
          => /\ call[k].done \in closed
             /\ \A l \in Loops : loop[l].joinDone # call[k].done

\* SetJoined, UnsetJoined, SetJoined have happened on the channel a caller
\* holds a joinDone of, from before the UnsetJoined
StaleSignalHeldAfterRejoin ==
    \E k \in Callers :
        /\ call[k].done \in unsetSigs
        /\ channels[call[k].name] # NoLoop
        /\ loop[channels[call[k].name]].joined
        /\ loop[channels[call[k].name]].joinDone \in closed

\* C8: SetJoined on a joined channelState and UnsetJoined on one that is not
\* joined change nothing (flag, joinDone, what is closed, the position of the
\* monitor), so that doing either twice is the same as doing it once.
SetUnsetIdempotent ==
    \A l \in Loops :
        loop[l] # FreeLoop
          => /\ loop[l].joined => SetJoined(Heap, l) = Heap
             /\ ~loop[l].joined => UnsetJoined(Heap, l) = Heap
             /\ SetJoined(SetJoined(Heap, l), l) = SetJoined(Heap, l)
             /\ UnsetJoined(UnsetJoined(Heap, l), l) = UnsetJoined(Heap, l)

\* A registered channelState that is not joined while its monitor is blocked
\* in monitorJoinUnset, and one that is joined: a second UnsetJoined that
\* did something would wake the first, a second SetJoined would close the
\* closed joinDone of the second.
RedundantSetUnsetPossible ==
    /\ mu = "free"
    /\ \E l \in Loops : Tracked(l) /\ ~loop[l].joined /\ loop[l].pc = "Parked"
    /\ \E l \in Loops : Tracked(l) /\ loop[l].joined

\* what HandleJoin / HandleKick may change of a heap h to get g: only the
\* state registered for channel
OnlyChannelChanged(h, g, channel) ==
    /\ g.channels = h.channels
    /\ g.stopWg = h.stopWg /\ g.panicked = h.panicked /\ g.call = h.call
    /\ \A l \in Loops :
          l # h.channels[channel]
            => /\ g.loop[l] = h.loop[l]
               /\ g.loop[l].joinDone \in g.closed <=> h.loop[l].joinDone \in h.closed

\* C9: HandleJoin and HandleKick change nothing when the nick is not the
\* local one or the channel is not registered (in particular they register
\* nothing); otherwise they change the state registered for the channel and
\* nothing of any other channelState.
HandlersFrame ==
    \A nick \in Nicks, channel \in Names :
        /\ (nick # Me \/ channels[channel] = NoLoop)
             => /\ HandleJoin(Heap, nick, channel) = Heap
                /\ HandleKick(Heap, nick, channel) = Heap
        /\ OnlyChannelChanged(Heap, HandleJoin(Heap, nick, channel), channel)
        /\ OnlyChannelChanged(Heap, HandleKick(Heap, nick, channel), channel)

\* two channels are registered, one joined with its monitor blocked in
\* monitorJoinUnset and one not joined: the events can reach either
TwoChannelsRegistered ==
    /\ mu = "free"
    /\ channels["a"] # NoLoop /\ channels["b"] # NoLoop
    /\ loop[channels["a"]].joined /\ loop[channels["a"]].pc = "Parked"
    /\ ~loop[channels["b"]].joined

\* C1: a registered channel that is not joined while the scope is live, as
\* it is right after HandleKick took it from joined to not joined, wherever
\* its monitor is then, is eventually sent a join request (its monitor gets
\* to the select of join), unless it is joined again or the scope ends first.
KickedChannelIsRejoined ==
    \A l \in Loops :
        (Tracked(l) /\ ~loop[l].joined /\ stopCtx = "ok")
          ~> \/ loop[l].pc = "JoinWait"
             \/ loop[l].joined
             \/ ~Tracked(l)
             \/ stopCtx # "ok"

\* C3: once Stop has cancelled the scope and waits, it returns, whatever
\* ended the scope first (Stop's own cancel, the parent's cancel, the
\* parent's deadline).
StopTerminates == (mu = "Stop") ~> (mu = "free")

\* C6: every JoinChannel call returns.
JoinChannelReturns ==
    \A k \in Callers :
        (call[k].st = "called") ~> (call[k].st = "returned" \/ panicked)

ListNames(list) == {list[i].Name : i \in DOMAIN list}

RacingJoinChannelMakesOne ==
    [][\A k \in Callers :
         (call[k].st = "called" /\ call'[k].st = "returned")
           => LET n == call[k].name
                  l == channels'[n]
              IN /\ l # NoLoop
                 /\ \A m \in Names \ {n} : channels'[m] = channels[m]
                 /\ \A j \in Loops \ {l} : loop'[j] = loop[j]
                 /\ IF channels[n] = NoLoop
                    THEN /\ loop[l] = FreeLoop
                         /\ loop'[l].name = n /\ loop'[l].pc = "Loop"
                         /\ stopWg' = stopWg + 1
                    ELSE /\ l = channels[n]
                         /\ loop'[l] = loop[l]
                         /\ stopWg' = stopWg
                 /\ IF loop'[l].joinDone \in closed'
                    THEN call'[k].joined /\ call'[k].done = NoSig
                    ELSE ~call'[k].joined /\ call'[k].done = loop'[l].joinDone]_vars

\* Two callers asked for the same name, which the list does not have, and
\* both have returned: one monitor was started for it besides the list's,
\* and both hold the joinDone of the one channelState registered for it.
RacersShareSignal ==
    /\ stopCtx = "ok" /\ mu = "free"
    /\ call["c1"].st = "returned" /\ call["c2"].st = "returned"
    /\ call["c1"].name = "b" /\ call["c2"].name = "b"
    /\ channels["b"] # NoLoop
    /\ call["c1"].done = loop[channels["b"]].joinDone
    /\ call["c2"].done = call["c1"].done
    /\ call["c1"].done # NoSig
    /\ stopWg = Len(preJoinChannels) + 1

\* the state a Stop leaves: started once, the context cancelled, nothing
\* registered and no monitor
Stopped ==
    /\ stopCtxCancel /\ stopCtx = "Canceled"
    /\ \A n \in Names : channels[n] = NoLoop
    /\ \A l \in Loops : loop[l] = FreeLoop

\* C13: before the first Start, Stop changes nothing and does not wait (it
\* returns at once).  A Stop in the state a Stop left does not wait either
\* (stopWg is zero) and leaves that same state.
StopIdempotent ==
    [][/\ (~stopCtxCancel /\ mu = "free")
            => unsafeStop(stopCtxCancel, stopCtx) = [ctx |-> stopCtx, waits |-> FALSE]
       /\ (Stopped /\ mu = "free" /\ mu' = "Stop")
            => /\ stopWg = 0
               /\ Stopped'
       /\ (Stopped /\ mu = "Stop" /\ mu' = "free")
            => /\ Stopped'
               /\ stopWg' = 0
               /\ UNCHANGED <<preJoinChannels, channels, loop, closed, unsetSigs,
                              stopCtx, stopCtxCancel, stopWg, call, panicked>>]_vars

\* Stop was called in the state a Stop left, and is in unsafeStop
StopOnStopped == Stopped /\ mu = "Stop"

\* C14: whenever nobody is inside Start or Stop, every name that is
\* registered has a monitor that runs (one that has not returned).
RegisteredHasRunningMonitor ==
    (mu = "free" /\ ~panicked)
      => \A n \in Names : channels[n] # NoLoop => Running(channels[n])

\* C15: every monitor that runs is the monitor of the channelState that
\* the registry has for its name, so that no name has two.
OneMonitorPerName ==
    \A l \in Loops : Running(l) => channels[loop[l].name] = l

\* C16: the joinDone a channelState has now is closed exactly when its
\* joined flag is set.
SignalFollowsFlag ==
    \A l \in Loops :
        loop[l] # FreeLoop => (loop[l].joinDone \in closed <=> loop[l].joined)

\* A caller fetched the joinDone of a channel after an UnsetJoined (its
\* monitor had seen it joined and went to monitorJoinUnset) and before the
\* next SetJoined: it was returned the open channel that is current.
FetchedAfterUnset ==
    \E k \in Callers :
        /\ call[k].st = "returned" /\ ~call[k].joined
        /\ channels[call[k].name] # NoLoop
        /\ LET c == loop[channels[call[k].name]]
           IN /\ ~c.joined /\ c.pc \in {"Park", "Parked"}
              /\ call[k].done = c.joinDone
              /\ c.joinDone \notin closed

\* C17: a joinDone that is closed stays closed: the caller that holds one
\* sees it closed after every step, and neither SetJoined nor UnsetJoined
\* opens any.  SetJoined closes at most the joinDone that is current, and
\* never one that is closed already (that close would panic).
SatisfiedStaysSatisfied ==
    [][/\ \A k \in Callers :
            (/\ call[k].st = "returned" /\ call'[k].st = "returned"
             /\ call[k].done \in closed)
              => call'[k].done \in closed'
       /\ \A l \in Loops :
            loop[l] # FreeLoop
              => /\ closed \subseteq SetJoined(Heap, l).closed
                 /\ SetJoined(Heap, l).closed \subseteq closed \cup {loop[l].joinDone}
                 /\ SetJoined(Heap, l).panicked = panicked
                 /\ closed \subseteq UnsetJoined(Heap, l).closed]_vars

\* a caller holds a joinDone that SetJoined closed and UnsetJoined has
\* replaced since, and the channel is not joined now (under a live context)
SatisfiedSignalOutlivesUnset ==
    \E k \in Callers :
        /\ stopCtx = "ok"
        /\ call[k].done \in closed /\ call[k].done \in unsetSigs
        /\ channels[call[k].name] # NoLoop
        /\ ~loop[channels[call[k].name]].joined

\* C19: a join request is sent by the step from the delay of join to its
\* select.  While a channelState stays joined, its monitor, once it is
\* anywhere but in that delay, never gets into the delay again, so it sends
\* nothing; a monitor that SetJoined found in the delay sends the one
\* request of that call of join and is then past the delay.  Under a live
\* context the monitor of a joined channelState gets to the select of
\* monitorJoinUnset, unless the channel is unset first.
JoinedSendsAtMostOne ==
    /\ [][\A l \in Loops :
             (/\ loop[l].joined /\ loop'[l].joined
              /\ loop[l].pc \in {"Loop", "JoinWait", "Park", "Parked"})
               => \/ loop'[l].pc = loop[l].pc
                  \/ loop'[l].pc \in {"Loop", "Park", "Parked", "Exited"}]_vars
    /\ \A l \in Loops :
          (loop[l].joined /\ Running(l) /\ stopCtx = "ok")
            ~> \/ loop[l].pc = "Parked"
               \/ ~loop[l].joined
               \/ stopCtx # "ok"

\* SetJoined found the monitor in the delay of join: it is about to send
\* the one join request of the call of join that was in progress
JoinedDuringDelay ==
    \E l \in Loops :
        stopCtx = "ok" /\ Tracked(l) /\ loop[l].joined /\ loop[l].pc = "Delay"

\* C18: no goroutine waits for ever for a mutex that another holds: a
\* JoinChannel call that waits for r.mu while Stop or Start holds it does not
\* stay in that state for ever.  (The critical sections of c.mu are taken
\* as single steps: none of them blocks or takes another mutex.)
NoMutexWaitsForever ==
    \A k \in Callers :
        []<>~(call[k].st = "called" /\ mu \in {"Stop", "Start"})

====
